---- MODULE Spec2Model ----
(***************************************************************************)
(* Model of the Hotel Emojis game component (App): the grid of windows,    *)
(* the door drop, the score, the elapsed-time clock with pause/resume,     *)
(* the periodic spawn / cleanup / elapsed-time intervals and the click,    *)
(* restart and navigation handlers.                                        *)
(*                                                                         *)
(* One action is one browser task: an event handler or an interval         *)
(* callback, followed by the React commit and the effects it triggers,     *)
(* run until no dependency changes any more (Settle).  Date.now() is the   *)
(* variable now; it only moves in Advance, so a task is instantaneous.     *)
(* Math.random() is a nondeterministic choice.  The callback of a         *)
(* registered interval may run at any instant until it is cleared.  Every  *)
(* state updater is evaluated once, as in a production build.              *)
(***************************************************************************)
EXTENDS Integers, Sequences, FiniteSets

\* ---------------------------------------------------------------- bounds
\* Number of windows of the grid that the model keeps (the program has
\* COLS * ROWS of them; every window runs the same code).
NumCells == 2

\* Number of time advances of one behaviour; Date.now() moves in quanta.
MaxAdvances == 3

\* Number of restarts of one behaviour (runKey is a counter).
MaxRuns == 2

\* Number of windows populated by the spawn callback in one behaviour.
MaxSpawns == 1

\* Number of times one behaviour leaves the game screen for the instructions.
MaxPauses == 1

\* Length in seconds of the uninterrupted run that ClockSpec follows.
MaxClockSeconds == 125

\* ------------------------------------------------------ program constants
SPAWN_INTERVAL_MS == 1000
CLEANUP_INTERVAL_MS == 150
TIMER_INTERVAL_MS == 250
TTL_MIN_MS == 3000
TTL_MAX_MS == 6000
MS_PER_SECOND == 1000
MILESTONE_POINTS == 50
THEME_PHASE_SECONDS == 60
THEME_OFFSET_SECONDS == 5
TRANSITION_START_SECOND == 55

DOOR_ITEMS == << 10, 15, 8, -12, -10 >>

SPAWNABLES ==
  << [kind |-> "good", points |-> 5],
     [kind |-> "good", points |-> 3],
     [kind |-> "good", points |-> 2],
     [kind |-> "good", points |-> 1],
     [kind |-> "bad",  points |-> -2],
     [kind |-> "bad",  points |-> -4],
     [kind |-> "bad",  points |-> -1],
     [kind |-> "bomb", points |-> 0] >>

\* ------------------------------------------------------------ model time
Quantum == 6 * TIMER_INTERVAL_MS
Horizon == MaxAdvances * Quantum

\* The values randomIntRange(TTL_MIN_MS, TTL_MAX_MS) is drawn from here:
\* both ends of the range.
TTLChoices == { TTL_MIN_MS, TTL_MAX_MS }

CellIds == 0 .. (NumCells - 1)
SpawnIdx == 1 .. Len(SPAWNABLES)
DoorIdx == 1 .. Len(DOOR_ITEMS)

\* null of a ref that holds a timestamp
NULL == -1

\* ------------------------------------------------------- pure functions
\* Mutant: the night theme does not flip the sign.
themedPoints_NoFlip(points, theme) == points

themedPoints(points, theme) == IF theme = "night" THEN -points ELSE points

windowDelta(item, theme) ==
  IF item.kind = "bomb" THEN 0 ELSE themedPoints(item.points, theme)

\* Mutant: the cycle is not shifted by the 5 seconds.
theme_NoOffset(elapsed) ==
  IF (elapsed \div THEME_PHASE_SECONDS) % 2 = 0 THEN "day" ELSE "night"

\* Mutant: the cycle has three phases, two of them day.
theme_ThreePhases(elapsed) ==
  IF ((elapsed + THEME_OFFSET_SECONDS) \div THEME_PHASE_SECONDS) % 3 # 1
  THEN "day" ELSE "night"

theme(elapsed) ==
  IF ((elapsed + THEME_OFFSET_SECONDS) \div THEME_PHASE_SECONDS) % 2 = 0
  THEN "day" ELSE "night"

secondsInMinute(elapsed) == elapsed % THEME_PHASE_SECONDS

isThemeTransitionWindow(elapsed) ==
  secondsInMinute(elapsed) >= TRANSITION_START_SECOND

doorMilestones(points) == points \div MILESTONE_POINTS

\* A cell is [active, expiresAt]; active is an index into SPAWNABLES, 0 = null.
EmptyCell == [active |-> 0, expiresAt |-> 0]

createInitialGrid == [i \in CellIds |-> EmptyCell]

\* The door drop is [item, expiresAt]; item indexes DOOR_ITEMS, 0 = null.
NoDrop == [item |-> 0, expiresAt |-> 0]

\* A registered interval: live until clearInterval; run = runKey of the render
\* that registered it.  Its callback may run at any instant while it is live:
\* the browser promises no more than that about the timing of the callbacks.
NoInterval == [live |-> FALSE, run |-> 0]

setInterval(run, period) == [live |-> TRUE, run |-> run]


\* ------------------------------------------------------------------ state
VARIABLES
  view,                   \* 'welcome' | 'instructions' | 'game'
  instructionsReturnTo,   \* 'welcome' | 'game'
  grid,                   \* WindowCell[]
  points,                 \* the score
  gameOver,
  doorDrop,
  doorMilestonesAwarded,
  elapsedSeconds,
  runKey,
  startedAt,              \* startedAtRef.current
  pausedAt,               \* pausedAtRef.current, NULL when not paused
  spawnIv,                \* the spawn interval (intervalsRef.current.spawn)
  cleanupIv,              \* the cleanup interval (intervalsRef.current.cleanup)
  timerIv,                \* the elapsed-time interval (timerRef.current)
  now,                    \* Date.now()
  lastOp,                 \* the task that produced this state, with what it saw
  resumeMark,             \* the last return to the game, until the clock moves
  spawned,                \* windows populated so far (bounded by MaxSpawns)
  pauses                  \* visits to the instructions from the game so far

vars == << view, instructionsReturnTo, grid, points, gameOver, doorDrop,
           doorMilestonesAwarded, elapsedSeconds, runKey, startedAt, pausedAt,
           spawnIv, cleanupIv, timerIv, now, lastOp, resumeMark, spawned,
           pauses >>

\* The component's state and refs as one record, for the handlers and effects.
Cur ==
  [ view |-> view, instructionsReturnTo |-> instructionsReturnTo, grid |-> grid,
    points |-> points, gameOver |-> gameOver, doorDrop |-> doorDrop,
    doorMilestonesAwarded |-> doorMilestonesAwarded,
    elapsedSeconds |-> elapsedSeconds, runKey |-> runKey,
    startedAt |-> startedAt, pausedAt |-> pausedAt,
    spawnIv |-> spawnIv, cleanupIv |-> cleanupIv, timerIv |-> timerIv ]

Commit(s) ==
  /\ view' = s.view
  /\ instructionsReturnTo' = s.instructionsReturnTo
  /\ grid' = s.grid
  /\ points' = s.points
  /\ gameOver' = s.gameOver
  /\ doorDrop' = s.doorDrop
  /\ doorMilestonesAwarded' = s.doorMilestonesAwarded
  /\ elapsedSeconds' = s.elapsedSeconds
  /\ runKey' = s.runKey
  /\ startedAt' = s.startedAt
  /\ pausedAt' = s.pausedAt
  /\ spawnIv' = s.spawnIv
  /\ cleanupIv' = s.cleanupIv
  /\ timerIv' = s.timerIv

\* ---------------------------------------------------------------- effects
\* Each effect takes p, the state of the previous render, r, the state of the
\* render being committed (what its closure reads), a, the state with the
\* updates queued so far, and t = Date.now().  It runs when one of its
\* dependencies differs between p and r.

shiftExpiries(g, delta) ==
  [i \in CellIds |->
     IF g[i].active # 0 THEN [g[i] EXCEPT !.expiresAt = @ + delta] ELSE g[i]]

shiftExpiry(d, delta) ==
  IF d.item # 0 THEN [d EXCEPT !.expiresAt = @ + delta] ELSE d

\* Mutant: the return to the game shifts the expiries by the time since
\* startedAt, not by the time since the pause instant.
PauseResumeEffect_ShiftsFromStart(p, r, a, t) ==
  IF p.view = r.view /\ p.elapsedSeconds = r.elapsedSeconds THEN a
  ELSE IF r.view # "game"
  THEN [a EXCEPT !.pausedAt = IF @ = NULL THEN t ELSE @]
  ELSE IF a.pausedAt = NULL
  THEN [a EXCEPT !.startedAt = t - r.elapsedSeconds * MS_PER_SECOND]
  ELSE LET delta == t - a.startedAt IN
       [a EXCEPT !.pausedAt = NULL,
                 !.startedAt = t - r.elapsedSeconds * MS_PER_SECOND,
                 !.doorDrop = IF delta > 0 THEN shiftExpiry(@, delta) ELSE @,
                 !.grid = IF delta > 0 THEN shiftExpiries(@, delta) ELSE @]

\* Mutant: the return to the game restarts the reference at the instant of
\* the return, without the seconds already on the clock.
PauseResumeEffect_DropsSeconds(p, r, a, t) ==
  IF p.view = r.view /\ p.elapsedSeconds = r.elapsedSeconds THEN a
  ELSE IF r.view # "game"
  THEN [a EXCEPT !.pausedAt = IF @ = NULL THEN t ELSE @]
  ELSE IF a.pausedAt = NULL
  THEN [a EXCEPT !.startedAt = t - r.elapsedSeconds * MS_PER_SECOND]
  ELSE LET delta == t - a.pausedAt IN
       [a EXCEPT !.pausedAt = NULL,
                 !.startedAt = t,
                 !.doorDrop = IF delta > 0 THEN shiftExpiry(@, delta) ELSE @,
                 !.grid = IF delta > 0 THEN shiftExpiries(@, delta) ELSE @]

\* Mutant: the return to the game re-bases startedAt and shifts no expiry.
PauseResumeEffect_NoShift(p, r, a, t) ==
  IF p.view = r.view /\ p.elapsedSeconds = r.elapsedSeconds THEN a
  ELSE IF r.view # "game"
  THEN [a EXCEPT !.pausedAt = IF @ = NULL THEN t ELSE @]
  ELSE IF a.pausedAt = NULL
  THEN [a EXCEPT !.startedAt = t - r.elapsedSeconds * MS_PER_SECOND]
  ELSE [a EXCEPT !.pausedAt = NULL,
                 !.startedAt = t - r.elapsedSeconds * MS_PER_SECOND]

\* Mutant: the pause instant is not forgotten on the return to the game.
PauseResumeEffect_KeepsMark(p, r, a, t) ==
  IF p.view = r.view /\ p.elapsedSeconds = r.elapsedSeconds THEN a
  ELSE IF r.view # "game"
  THEN [a EXCEPT !.pausedAt = IF @ = NULL THEN t ELSE @]
  ELSE IF a.pausedAt = NULL
  THEN [a EXCEPT !.startedAt = t - r.elapsedSeconds * MS_PER_SECOND]
  ELSE LET delta == t - a.pausedAt IN
       [a EXCEPT !.startedAt = t - r.elapsedSeconds * MS_PER_SECOND,
                 !.doorDrop = IF delta > 0 THEN shiftExpiry(@, delta) ELSE @,
                 !.grid = IF delta > 0 THEN shiftExpiries(@, delta) ELSE @]

\* Mutant: the return to the game shifts the expiries and leaves startedAt.
PauseResumeEffect_NoRebase(p, r, a, t) ==
  IF p.view = r.view /\ p.elapsedSeconds = r.elapsedSeconds THEN a
  ELSE IF r.view # "game"
  THEN [a EXCEPT !.pausedAt = IF @ = NULL THEN t ELSE @]
  ELSE IF a.pausedAt = NULL
  THEN [a EXCEPT !.startedAt = t - r.elapsedSeconds * MS_PER_SECOND]
  ELSE LET delta == t - a.pausedAt IN
       [a EXCEPT !.pausedAt = NULL,
                 !.doorDrop = IF delta > 0 THEN shiftExpiry(@, delta) ELSE @,
                 !.grid = IF delta > 0 THEN shiftExpiries(@, delta) ELSE @]

PauseResumeEffect(p, r, a, t) ==
  IF p.view = r.view /\ p.elapsedSeconds = r.elapsedSeconds THEN a
  ELSE IF r.view # "game"
  THEN [a EXCEPT !.pausedAt = IF @ = NULL THEN t ELSE @]
  ELSE IF a.pausedAt = NULL
  THEN [a EXCEPT !.startedAt = t - r.elapsedSeconds * MS_PER_SECOND]
  ELSE LET delta == t - a.pausedAt IN
       [a EXCEPT !.pausedAt = NULL,
                 !.startedAt = t - r.elapsedSeconds * MS_PER_SECOND,
                 !.doorDrop = IF delta > 0 THEN shiftExpiry(@, delta) ELSE @,
                 !.grid = IF delta > 0 THEN shiftExpiries(@, delta) ELSE @]

\* c = [item, ttl]: what pickDoorItem() and randomIntRange() return.
\* Mutant: the drop is armed and the milestone is not recorded.
DoorMilestoneEffect_NoRecord(p, r, a, t, c) ==
  IF /\ doorMilestones(p.points) = doorMilestones(r.points)
     /\ p.doorMilestonesAwarded = r.doorMilestonesAwarded
     /\ p.gameOver = r.gameOver
     /\ p.view = r.view
  THEN a
  ELSE IF r.view # "game" THEN a
  ELSE IF r.gameOver THEN a
  ELSE IF doorMilestones(r.points) <= 0 THEN a
  ELSE IF doorMilestones(r.points) <= r.doorMilestonesAwarded THEN a
  ELSE [a EXCEPT !.doorDrop = [item |-> c.item, expiresAt |-> t + c.ttl]]

\* Mutant: the milestones already awarded are not compared with.
DoorMilestoneEffect_Rearms(p, r, a, t, c) ==
  IF /\ doorMilestones(p.points) = doorMilestones(r.points)
     /\ p.doorMilestonesAwarded = r.doorMilestonesAwarded
     /\ p.gameOver = r.gameOver
     /\ p.view = r.view
  THEN a
  ELSE IF r.view # "game" THEN a
  ELSE IF r.gameOver THEN a
  ELSE IF doorMilestones(r.points) <= 0 THEN a
  ELSE [a EXCEPT !.doorMilestonesAwarded = doorMilestones(r.points),
                 !.doorDrop = [item |-> c.item, expiresAt |-> t + c.ttl]]

\* Mutant: a drop that is still live is not overwritten.
DoorMilestoneEffect_KeepsLive(p, r, a, t, c) ==
  IF /\ doorMilestones(p.points) = doorMilestones(r.points)
     /\ p.doorMilestonesAwarded = r.doorMilestonesAwarded
     /\ p.gameOver = r.gameOver
     /\ p.view = r.view
  THEN a
  ELSE IF r.view # "game" THEN a
  ELSE IF r.gameOver THEN a
  ELSE IF doorMilestones(r.points) <= 0 THEN a
  ELSE IF doorMilestones(r.points) <= r.doorMilestonesAwarded THEN a
  ELSE [a EXCEPT !.doorMilestonesAwarded = doorMilestones(r.points),
                 !.doorDrop = IF @.item # 0 /\ @.expiresAt > t THEN @
                              ELSE [item |-> c.item, expiresAt |-> t + c.ttl]]

DoorMilestoneEffect(p, r, a, t, c) ==
  IF /\ doorMilestones(p.points) = doorMilestones(r.points)
     /\ p.doorMilestonesAwarded = r.doorMilestonesAwarded
     /\ p.gameOver = r.gameOver
     /\ p.view = r.view
  THEN a
  ELSE IF r.view # "game" THEN a
  ELSE IF r.gameOver THEN a
  ELSE IF doorMilestones(r.points) <= 0 THEN a
  ELSE IF doorMilestones(r.points) <= r.doorMilestonesAwarded THEN a
  ELSE [a EXCEPT !.doorMilestonesAwarded = doorMilestones(r.points),
                 !.doorDrop = [item |-> c.item, expiresAt |-> t + c.ttl]]

\* Mutant: the effect's cleanup does not clear the two intervals.
IntervalsEffect_NoClear(p, r, a, t) ==
  IF p.gameOver = r.gameOver /\ p.view = r.view THEN a
  ELSE IF r.view # "game" \/ r.gameOver THEN a
  ELSE [a EXCEPT !.spawnIv = setInterval(r.runKey, SPAWN_INTERVAL_MS),
                 !.cleanupIv = setInterval(r.runKey, CLEANUP_INTERVAL_MS)]

IntervalsEffect(p, r, a, t) ==
  IF p.gameOver = r.gameOver /\ p.view = r.view THEN a
  ELSE IF r.view # "game" \/ r.gameOver
  THEN [a EXCEPT !.spawnIv = NoInterval, !.cleanupIv = NoInterval]
  ELSE [a EXCEPT !.spawnIv = setInterval(r.runKey, SPAWN_INTERVAL_MS),
                 !.cleanupIv = setInterval(r.runKey, CLEANUP_INTERVAL_MS)]

\* Mutant: a new run re-bases startedAt and leaves the seconds on the clock.
RunKeyEffect_KeepsSeconds(p, r, a, t) ==
  IF p.runKey = r.runKey THEN a
  ELSE [a EXCEPT !.startedAt = t]

RunKeyEffect(p, r, a, t) ==
  IF p.runKey = r.runKey THEN a
  ELSE [a EXCEPT !.startedAt = t, !.elapsedSeconds = 0]

TimerEffect(p, r, a, t) ==
  IF p.gameOver = r.gameOver /\ p.runKey = r.runKey /\ p.view = r.view THEN a
  ELSE IF r.gameOver \/ r.view # "game"
  THEN [a EXCEPT !.timerIv = NoInterval]
  ELSE [a EXCEPT !.timerIv = setInterval(r.runKey, TIMER_INTERVAL_MS)]

\* The effects of one commit, in the order the component declares them.
RunEffects(p, r, t, c) ==
  LET a1 == PauseResumeEffect(p, r, r, t)
      a2 == DoorMilestoneEffect(p, r, a1, t, c)
      a3 == IntervalsEffect(p, r, a2, t)
      a4 == RunKeyEffect(p, r, a3, t)
      a5 == TimerEffect(p, r, a4, t)
  IN a5

\* What a render reads: a state update that changes none of it renders nothing.
Rendered(s) ==
  << s.view, s.instructionsReturnTo, s.grid, s.points, s.gameOver, s.doorDrop,
     s.doorMilestonesAwarded, s.elapsedSeconds, s.runKey >>

\* Commit r after p, then re-render while the effects keep changing state.
RECURSIVE Settle(_, _, _, _, _)
Settle(p, r, t, c, fuel) ==
  LET n == RunEffects(p, r, t, c) IN
  IF fuel = 0 \/ Rendered(n) = Rendered(r) THEN n
  ELSE Settle(r, n, t, c, fuel - 1)

MaxRenders == 4

NoChoice == [item |-> 1, ttl |-> TTL_MIN_MS]
DoorChoices == [item : DoorIdx, ttl : TTLChoices]

\* The draws to enumerate for a commit of state h: those of the door milestone
\* effect when it can arm, one placeholder when it cannot.
ArmChoices(h) ==
  IF doorMilestones(h.points) > h.doorMilestonesAwarded
  THEN DoorChoices ELSE {NoChoice}


\* --------------------------------------------------------------- handlers
\* Each handler maps the state its closure was rendered from to the state
\* after its queued updates; the commit and the effects follow in Settle.

restart(s) ==
  [s EXCEPT !.spawnIv = NoInterval,
            !.cleanupIv = NoInterval,
            !.timerIv = NoInterval,
            !.points = 0,
            !.gameOver = FALSE,
            !.doorDrop = NoDrop,
            !.doorMilestonesAwarded = 0,
            !.grid = createInitialGrid,
            !.runKey = @ + 1]

openInstructions(s, from) ==
  [s EXCEPT !.instructionsReturnTo = from, !.view = "instructions"]

startGame(s) == [restart(s) EXCEPT !.view = "game"]

backToGame(s) == [s EXCEPT !.view = "game"]

\* Mutant: the bomb is not told apart from the other items.
onClickWindow_BombScores(s, id) ==
  IF s.gameOver THEN s
  ELSE IF s.view # "game" THEN s
  ELSE IF s.grid[id].active = 0 THEN s
  ELSE [s EXCEPT !.points = @ + SPAWNABLES[s.grid[id].active].points,
                 !.grid[id] = EmptyCell]

\* Mutant: the handler does not return when the game is over.
onClickWindow_NoGuard(s, id) ==
  IF s.view # "game" THEN s
  ELSE IF s.grid[id].active = 0 THEN s
  ELSE LET picked == SPAWNABLES[s.grid[id].active] IN
       IF picked.kind = "bomb"
       THEN [s EXCEPT !.gameOver = TRUE, !.grid[id] = EmptyCell]
       ELSE [s EXCEPT !.points = @ + windowDelta(picked, theme(s.elapsedSeconds)),
                      !.grid[id] = EmptyCell]

onClickWindow(s, id) ==
  IF s.gameOver THEN s
  ELSE IF s.view # "game" THEN s
  ELSE IF s.grid[id].active = 0 THEN s
  ELSE LET picked == SPAWNABLES[s.grid[id].active] IN
       IF picked.kind = "bomb"
       THEN [s EXCEPT !.gameOver = TRUE, !.grid[id] = EmptyCell]
       ELSE [s EXCEPT !.points = @ + windowDelta(picked, theme(s.elapsedSeconds)),
                      !.grid[id] = EmptyCell]

\* Mutant: the door does not compare expiresAt with the instant of the click.
onClickDoor_NoExpiry(s, t) ==
  IF s.gameOver THEN s
  ELSE IF s.view # "game" THEN s
  ELSE IF s.doorDrop.item = 0 THEN s
  ELSE [s EXCEPT !.points = @ + themedPoints(DOOR_ITEMS[s.doorDrop.item],
                                             theme(s.elapsedSeconds)),
                 !.doorDrop = NoDrop]

\* Mutant: the door adds the base value of the drop, whatever the theme.
onClickDoor_NoTheme(s, t) ==
  IF s.gameOver THEN s
  ELSE IF s.view # "game" THEN s
  ELSE IF s.doorDrop.item = 0 THEN s
  ELSE IF s.doorDrop.expiresAt <= t THEN [s EXCEPT !.doorDrop = NoDrop]
  ELSE [s EXCEPT !.points = @ + DOOR_ITEMS[s.doorDrop.item],
                 !.doorDrop = NoDrop]

onClickDoor(s, t) ==
  IF s.gameOver THEN s
  ELSE IF s.view # "game" THEN s
  ELSE IF s.doorDrop.item = 0 THEN s
  ELSE IF s.doorDrop.expiresAt <= t THEN [s EXCEPT !.doorDrop = NoDrop]
  ELSE [s EXCEPT !.points = @ + themedPoints(DOOR_ITEMS[s.doorDrop.item],
                                             theme(s.elapsedSeconds)),
                 !.doorDrop = NoDrop]

\* ----------------------------------------------------- interval callbacks
\* Mutant: every window is a candidate, live occupant or not.
emptyIndices_Any(g, t) == CellIds

emptyIndices(g, t) == {i \in CellIds : g[i].active = 0 \/ g[i].expiresAt <= t}

\* target, spawnable, ttl: the three random draws of the callback.
spawnTick(s, t, target, spawnable, ttl) ==
  IF emptyIndices(s.grid, t) = {} THEN s
  ELSE [s EXCEPT !.grid[target] = [active |-> spawnable, expiresAt |-> t + ttl]]

\* Mutant: an occupant that expires at this very instant is kept.
cleanupTick_Strict(s, t) ==
  [s EXCEPT
     !.doorDrop = IF @.item # 0 /\ @.expiresAt < t THEN NoDrop ELSE @,
     !.grid = [i \in CellIds |->
                 IF @[i].active # 0 /\ @[i].expiresAt < t THEN EmptyCell ELSE @[i]]]

cleanupTick(s, t) ==
  [s EXCEPT
     !.doorDrop = IF @.item # 0 /\ @.expiresAt <= t THEN NoDrop ELSE @,
     !.grid = [i \in CellIds |->
                 IF @[i].active # 0 /\ @[i].expiresAt <= t THEN EmptyCell ELSE @[i]]]

timerTick(s, t) ==
  [s EXCEPT !.elapsedSeconds = (t - s.startedAt) \div MS_PER_SECOND]


\* ------------------------------------------------------------ initial state
\* The component right after it mounted at instant t: the useState and useRef
\* initial values, then the mount run of every effect (view is 'welcome', so
\* the pause effect records t and no interval is registered).
Mounted(t) ==
  [ view |-> "welcome", instructionsReturnTo |-> "welcome",
    grid |-> createInitialGrid, points |-> 0, gameOver |-> FALSE,
    doorDrop |-> NoDrop, doorMilestonesAwarded |-> 0, elapsedSeconds |-> 0,
    runKey |-> 0, startedAt |-> t, pausedAt |-> t,
    spawnIv |-> NoInterval, cleanupIv |-> NoInterval, timerIv |-> NoInterval ]

\* A first run that has been played for e seconds up to instant t and stands
\* at score pts with the door empty and the windows as in g: the state right
\* after the elapsed-time callback that set elapsedSeconds to e (which
\* re-bases startedAt).
InPlay(t, e, pts, g) ==
  [ view |-> "game", instructionsReturnTo |-> "welcome",
    grid |-> g, points |-> pts, gameOver |-> FALSE,
    doorDrop |-> NoDrop,
    doorMilestonesAwarded |-> IF doorMilestones(pts) > 0 THEN doorMilestones(pts) ELSE 0,
    elapsedSeconds |-> e, runKey |-> 1,
    startedAt |-> t - e * MS_PER_SECOND, pausedAt |-> NULL,
    spawnIv |-> setInterval(1, SPAWN_INTERVAL_MS),
    cleanupIv |-> setInterval(1, CLEANUP_INTERVAL_MS),
    timerIv |-> setInterval(1, TIMER_INTERVAL_MS) ]

\* The grid with its last window populated at instant t - TTL_MIN_MS by the
\* first catalog item with the longest lifetime, the others empty.
OneLeft(t) ==
  [i \in CellIds |->
     IF i = NumCells - 1
     THEN [active |-> 1, expiresAt |-> t - TTL_MIN_MS + TTL_MAX_MS]
     ELSE EmptyCell]

\* The run s with the door drop that was armed at instant t - TTL_MIN_MS,
\* when its score reached the milestone awarded last, with the first door
\* item and the longest lifetime; the score has moved on since.
WithDoor(s, t) ==
  [s EXCEPT !.doorDrop = [item |-> 1, expiresAt |-> t - TTL_MIN_MS + TTL_MAX_MS]]

\* The run s after its score had reached milestone k, whose drop is gone, and
\* has fallen back to where it stands.
FallenFrom(s, k) == [s EXCEPT !.doorMilestonesAwarded = k]

\* The runs in progress the model starts from, besides the fresh mount: one
\* second before the first day-to-night flip and just below a milestone; the
\* last two with the drop of the previous milestone still at the door, and
\* with the milestone ahead awarded before.
LastDaySecond == THEME_PHASE_SECONDS - THEME_OFFSET_SECONDS - 1

Snapshots(t) ==
  { Mounted(t),
    InPlay(t, LastDaySecond, MILESTONE_POINTS - 2, OneLeft(t)),
    InPlay(t, LastDaySecond, 2 * MILESTONE_POINTS - 2, createInitialGrid),
    WithDoor(InPlay(t, LastDaySecond, 2 * MILESTONE_POINTS - 2, createInitialGrid), t),
    FallenFrom(InPlay(t, LastDaySecond, 2 * MILESTONE_POINTS - 2, createInitialGrid), 2) }

\* lastOp: the task, its argument (the window of a click or a spawn, the door
\* item of a click on the door, the length of the pause of a return to the
\* game, the seconds on the clock of a restart, the length of the pause
\* before the first refresh of the clock after a return) and the branch it
\* took.
Op(op, arg, outcome) == [op |-> op, arg |-> arg, outcome |-> outcome]

\* resumeMark: the instant of the last return to the game, the seconds the
\* clock showed then and the length of the pause; NoMark once the clock has
\* moved or the run was restarted.
NoMark == [set |-> FALSE, at |-> 0, seconds |-> 0, away |-> 0]

Mark(t, e, away) == [set |-> TRUE, at |-> t, seconds |-> e, away |-> away]

Init ==
  /\ now = 0
  /\ \E s \in Snapshots(0) :
       /\ view = s.view
       /\ instructionsReturnTo = s.instructionsReturnTo
       /\ grid = s.grid
       /\ points = s.points
       /\ gameOver = s.gameOver
       /\ doorDrop = s.doorDrop
       /\ doorMilestonesAwarded = s.doorMilestonesAwarded
       /\ elapsedSeconds = s.elapsedSeconds
       /\ runKey = s.runKey
       /\ startedAt = s.startedAt
       /\ pausedAt = s.pausedAt
       /\ spawnIv = s.spawnIv
       /\ cleanupIv = s.cleanupIv
       /\ timerIv = s.timerIv
  /\ lastOp = Op("mount", 0, "-")
  /\ resumeMark = NoMark
  /\ spawned = 0
  /\ pauses = 0

\* ----------------------------------------------------------------- actions
\* lastOp names the last task that changed anything; a task that changes
\* nothing (a click on an empty window, a sweep with nothing expired) leaves
\* every variable as it is.
Task(s, op) ==
  IF s = Cur
  THEN UNCHANGED << view, instructionsReturnTo, grid, points, gameOver, doorDrop,
                    doorMilestonesAwarded, elapsedSeconds, runKey, startedAt,
                    pausedAt, spawnIv, cleanupIv, timerIv, lastOp >>
  ELSE Commit(s) /\ lastOp' = op

Advance ==
  /\ now + Quantum <= Horizon
  /\ now' = now + Quantum
  /\ lastOp' = Op("advance", 0, "-")
  /\ UNCHANGED << view, instructionsReturnTo, grid, points, gameOver, doorDrop,
                  doorMilestonesAwarded, elapsedSeconds, runKey, startedAt,
                  pausedAt, spawnIv, cleanupIv, timerIv, resumeMark, spawned,
                  pauses >>

\* 'Continue' on the welcome screen.
ContinueFromWelcome ==
  /\ view = "welcome"
  /\ Task(Settle(Cur, openInstructions(Cur, "welcome"), now, NoChoice, MaxRenders),
          Op("openInstructions", 0, "welcome"))
  /\ UNCHANGED << now, resumeMark, spawned, pauses >>

\* 'Instructions' on the door sign of the game screen.
InstructionsFromGame ==
  /\ view = "game"
  /\ pauses < MaxPauses
  /\ pauses' = pauses + 1
  /\ Task(Settle(Cur, openInstructions(Cur, "game"), now, NoChoice, MaxRenders),
          Op("openInstructions", 0, "game"))
  /\ UNCHANGED << now, resumeMark, spawned >>

\* 'Start Game' on the instructions screen.
StartGame ==
  /\ view = "instructions"
  /\ instructionsReturnTo # "game"
  /\ runKey < MaxRuns
  /\ Task(Settle(Cur, startGame(Cur), now, NoChoice, MaxRenders),
          Op("startGame", now - pausedAt, "-"))
  /\ resumeMark' = Mark(now, 0, now - pausedAt)
  /\ UNCHANGED << now, spawned, pauses >>

\* 'Back to Game' on the instructions screen.
BackToGame ==
  /\ view = "instructions"
  /\ instructionsReturnTo = "game"
  /\ Task(Settle(Cur, backToGame(Cur), now, NoChoice, MaxRenders),
          Op("backToGame", now - pausedAt, "-"))
  /\ resumeMark' = Mark(now, elapsedSeconds, now - pausedAt)
  /\ UNCHANGED << now, spawned, pauses >>

\* 'Restart' in the game-over dialog.
Restart ==
  /\ view = "game"
  /\ gameOver
  /\ runKey < MaxRuns
  /\ Task(Settle(Cur, restart(Cur), now, NoChoice, MaxRenders),
          Op("restart", elapsedSeconds, "-"))
  /\ resumeMark' = NoMark
  /\ UNCHANGED << now, spawned, pauses >>

WindowOutcome(id) ==
  IF gameOver \/ view # "game" THEN "ignored"
  ELSE IF grid[id].active = 0 THEN "empty"
  ELSE IF SPAWNABLES[grid[id].active].kind = "bomb" THEN "bomb"
  ELSE "scored"

\* A click (or Enter / Space) on window id of the game screen.
ClickWindow(id) ==
  /\ view = "game"
  /\ LET h == onClickWindow(Cur, id) IN
     \E c \in ArmChoices(h) :
       Task(Settle(Cur, h, now, c, MaxRenders),
            Op("clickWindow", id, WindowOutcome(id)))
  /\ UNCHANGED << now, resumeMark, spawned, pauses >>

DoorOutcome ==
  IF gameOver \/ view # "game" THEN "ignored"
  ELSE IF doorDrop.item = 0 THEN "empty"
  ELSE IF doorDrop.expiresAt <= now THEN "expired"
  ELSE "scored"

\* A click (or Enter / Space) on the door of the game screen.
ClickDoor ==
  /\ view = "game"
  /\ LET h == onClickDoor(Cur, now) IN
     \E c \in ArmChoices(h) :
       Task(Settle(Cur, h, now, c, MaxRenders),
            Op("clickDoor", doorDrop.item, DoorOutcome))
  /\ UNCHANGED << now, resumeMark, spawned, pauses >>

\* The callback of the spawn interval.
SpawnTick ==
  /\ spawnIv.live
  /\ IF emptyIndices(grid, now) = {}
     THEN /\ Task(Settle(Cur, spawnTick(Cur, now, 0, 1, TTL_MIN_MS), now, NoChoice, MaxRenders),
                  Op("spawn", 0, "full"))
          /\ spawned' = spawned
     ELSE \E target \in emptyIndices(grid, now), spawnable \in SpawnIdx, ttl \in TTLChoices :
            /\ spawned < MaxSpawns
            /\ spawned' = spawned + 1
            /\ Task(Settle(Cur, spawnTick(Cur, now, target, spawnable, ttl), now, NoChoice, MaxRenders),
                    Op("spawn", target, "spawned"))
  /\ UNCHANGED << now, resumeMark, pauses >>

\* The callback of the cleanup interval.
CleanupTick ==
  /\ cleanupIv.live
  /\ Task(Settle(Cur, cleanupTick(Cur, now), now, NoChoice, MaxRenders),
          Op("cleanup", 0, "-"))
  /\ UNCHANGED << now, resumeMark, spawned, pauses >>

\* The callback of the elapsed-time interval.
TimerTick ==
  /\ timerIv.live
  /\ LET s == Settle(Cur, timerTick(Cur, now), now, NoChoice, MaxRenders) IN
     /\ Task(s, Op("timer", resumeMark.away, "-"))
     /\ resumeMark' = IF s = Cur THEN resumeMark ELSE NoMark
  /\ UNCHANGED << now, spawned, pauses >>

Next ==
  \/ Advance
  \/ ContinueFromWelcome
  \/ InstructionsFromGame
  \/ StartGame
  \/ BackToGame
  \/ Restart
  \/ \E id \in CellIds : ClickWindow(id)
  \/ ClickDoor
  \/ SpawnTick
  \/ CleanupTick
  \/ TimerTick

Spec == Init /\ [][Next]_vars

\* --------------------------------------------- one run, from its first instant
\* ClockSpec follows one run from the instant startGame() has settled, T0 = 0,
\* with the game screen shown throughout and nothing clicked: time passes and
\* the elapsed-time callback runs.  Of the callbacks of the 250 ms interval
\* only those that can change elapsedSeconds matter: one runs a full second
\* after the previous one, or one interval period later than that.
RunStart == 0

TickDelays == { 4 * TIMER_INTERVAL_MS, 5 * TIMER_INTERVAL_MS }

ClockInit ==
  /\ now = RunStart
  /\ LET s == InPlay(RunStart, 0, 0, createInitialGrid) IN
       /\ view = s.view
       /\ instructionsReturnTo = s.instructionsReturnTo
       /\ grid = s.grid
       /\ points = s.points
       /\ gameOver = s.gameOver
       /\ doorDrop = s.doorDrop
       /\ doorMilestonesAwarded = s.doorMilestonesAwarded
       /\ elapsedSeconds = s.elapsedSeconds
       /\ runKey = s.runKey
       /\ startedAt = s.startedAt
       /\ pausedAt = s.pausedAt
       /\ spawnIv = s.spawnIv
       /\ cleanupIv = s.cleanupIv
       /\ timerIv = s.timerIv
  /\ lastOp = Op("startGame", 0, "-")
  /\ resumeMark = NoMark
  /\ spawned = 0
  /\ pauses = 0

ClockAdvance ==
  /\ lastOp.op # "advance"
  /\ \E d \in TickDelays :
       /\ now + d <= MaxClockSeconds * MS_PER_SECOND
       /\ now' = now + d
  /\ lastOp' = Op("advance", 0, "-")
  /\ UNCHANGED << view, instructionsReturnTo, grid, points, gameOver, doorDrop,
                  doorMilestonesAwarded, elapsedSeconds, runKey, startedAt,
                  pausedAt, spawnIv, cleanupIv, timerIv, resumeMark, spawned,
                  pauses >>

ClockNext ==
  \/ ClockAdvance
  \/ TimerTick

ClockSpec == ClockInit /\ [][ClockNext]_vars

TypeOK ==
  /\ view \in {"welcome", "instructions", "game"}
  /\ points \in Int
  /\ elapsedSeconds >= 0


\* ------------------------------------------------------------------ claims
Occupied(cell) == cell.active # 0
Live(cell, t) == cell.active # 0 /\ cell.expiresAt > t
IsBomb(cell) == cell.active # 0 /\ SPAWNABLES[cell.active].kind = "bomb"
OccupiedCount(g) == Cardinality({i \in CellIds : Occupied(g[i])})
CurrentTheme == theme(elapsedSeconds)

\* C1: a click on a window that holds a bomb, with the game screen shown and
\* the game not over, sets gameOver, leaves the score as it was and empties
\* that window, in the day theme and in the night theme alike.
C1_BombEndsGame ==
  [][\A id \in CellIds :
       (/\ lastOp'.op = "clickWindow" /\ lastOp'.arg = id
        /\ view = "game" /\ ~gameOver
        /\ IsBomb(grid[id]))
       => (/\ gameOver'
           /\ points' = points
           /\ grid'[id].active = 0)]_vars

\* C1 witness: a bomb was clicked in the night theme and the game is over.
C1_Witness ==
  /\ lastOp.op = "clickWindow" /\ lastOp.outcome = "bomb"
  /\ gameOver
  /\ CurrentTheme = "night"
  /\ grid[lastOp.arg].active = 0

\* C2: a click on a window that holds a live item other than the bomb, of base
\* value p, adds p to the score in the day theme and -p in the night theme,
\* empties that window and leaves every other window as it was.
C2_ItemScores ==
  [][\A id \in CellIds :
       (/\ lastOp'.op = "clickWindow" /\ lastOp'.arg = id
        /\ view = "game" /\ ~gameOver
        /\ Live(grid[id], now) /\ ~IsBomb(grid[id]))
       => (/\ points' = points + (IF CurrentTheme = "day"
                                  THEN SPAWNABLES[grid[id].active].points
                                  ELSE 0 - SPAWNABLES[grid[id].active].points)
           /\ grid'[id].active = 0
           /\ \A j \in CellIds \ {id} : grid'[j] = grid[j])]_vars

\* C2 witness: an item was clicked in the night theme while another window
\* was occupied.
C2_Witness ==
  /\ lastOp.op = "clickWindow" /\ lastOp.outcome = "scored"
  /\ CurrentTheme = "night"
  /\ \E j \in CellIds \ {lastOp.arg} : Occupied(grid[j])

\* C3: a click on a window with no live occupant (none, or one whose
\* expiresAt has passed and that the sweep has not cleared yet) changes
\* neither the score nor gameOver.
C3_DeadClickIsNoOp ==
  [][\A id \in CellIds :
       (/\ lastOp'.op = "clickWindow" /\ lastOp'.arg = id
        /\ ~Live(grid[id], now))
       => (points' = points /\ gameOver' = gameOver)]_vars

\* C4: a spawn callback populates at most one window, raises the number of
\* occupied windows by at most one, writes only to a window that is available
\* (no occupant, or expiresAt <= now) and leaves every live occupant, hence a
\* full grid, as it is.
C4_SpawnOnlyIntoAvailable ==
  [][lastOp'.op = "spawn" =>
       LET written == {i \in CellIds : grid'[i] # grid[i]} IN
       /\ Cardinality(written) <= 1
       /\ OccupiedCount(grid') <= OccupiedCount(grid) + 1
       /\ \A i \in written : ~Occupied(grid[i]) \/ grid[i].expiresAt <= now
       /\ \A i \in CellIds : Live(grid[i], now) => grid'[i] = grid[i]
       /\ ((\A i \in CellIds : Live(grid[i], now)) => grid' = grid)]_vars

\* C4 witness: a spawn has populated a window while every other window held
\* a live occupant, so the grid is now full and live.
C4_Witness ==
  /\ lastOp.op = "spawn"
  /\ Live(grid[lastOp.arg], now)
  /\ \A i \in CellIds : Live(grid[i], now)

\* C5: a sweep at instant now empties a window exactly when it is occupied
\* with expiresAt <= now, and removes the door drop exactly when it is present
\* with expiresAt <= now; what it does not clear it leaves as it was.
C5_SweepIffExpired ==
  [][lastOp'.op = "cleanup" =>
       /\ \A i \in CellIds :
            /\ (Occupied(grid[i]) /\ grid[i].expiresAt <= now) => grid'[i].active = 0
            /\ ~(Occupied(grid[i]) /\ grid[i].expiresAt <= now) => grid'[i] = grid[i]
       /\ (doorDrop.item # 0 /\ doorDrop.expiresAt <= now) => doorDrop'.item = 0
       /\ ~(doorDrop.item # 0 /\ doorDrop.expiresAt <= now) => doorDrop' = doorDrop]_vars

\* C5 witness: a sweep has cleared something and left a live occupant in
\* place.
C5_Witness ==
  /\ lastOp.op = "cleanup"
  /\ \E i \in CellIds : ~Occupied(grid[i])
  /\ \E j \in CellIds : Live(grid[j], now)


ShiftedBy(cell, delta) == [cell EXCEPT !.expiresAt = @ + delta]

\* C6: a return to the game screen after delta ms away (now minus the
\* recorded pause instant) adds exactly delta to the expiresAt of every
\* occupied window and of the door drop, leaves the empty ones as they were
\* and forgets the pause instant, so that no other task shifts an expiry: a
\* window that keeps its occupant keeps its expiresAt, and the door drop
\* changes only when it is armed or removed.
C6_ResumeShiftsOnce ==
  [][/\ lastOp'.op = "backToGame" =>
          LET delta == now - pausedAt IN
          /\ pausedAt # NULL /\ pausedAt' = NULL
          /\ \A i \in CellIds :
               grid'[i] = IF Occupied(grid[i]) THEN ShiftedBy(grid[i], delta)
                          ELSE grid[i]
          /\ doorDrop' = IF doorDrop.item # 0 THEN ShiftedBy(doorDrop, delta)
                         ELSE doorDrop
     /\ lastOp'.op \notin {"backToGame", "startGame", "restart", "spawn"} =>
          /\ \A i \in CellIds :
               Occupied(grid'[i]) => grid'[i] = grid[i]
          /\ (doorDrop'.item # 0 /\ doorDrop' # doorDrop) =>
               doorMilestonesAwarded' # doorMilestonesAwarded]_vars

\* C6 witness: the game was resumed after a pause of positive length with an
\* occupied window and a door drop.
C6_Witness ==
  /\ lastOp.op = "backToGame" /\ lastOp.arg > 0
  /\ \E i \in CellIds : Occupied(grid[i])
  /\ doorDrop.item # 0

\* C7: time away from the game screen is not play time.  elapsedSeconds does
\* not change when the game screen is left, while another screen is shown, or
\* when the game screen is shown again; and the first refresh of the clock
\* after the return at instant R, in the same run, at instant now, sets it to
\* the seconds shown at the pause plus floor((now - R) / 1000).
C7_PauseIsNotPlayTime ==
  [][/\ (view # "game" \/ view' # "game") => elapsedSeconds' = elapsedSeconds
     /\ (lastOp'.op = "timer" /\ resumeMark.set)
          => elapsedSeconds' =
               resumeMark.seconds + ((now - resumeMark.at) \div MS_PER_SECOND)]_vars

\* C7 witness: the clock has just moved for the first time after a return
\* from a pause of positive length.
C7_Witness ==
  /\ lastOp.op = "timer" /\ lastOp.arg > 0
  /\ ~resumeMark.set
  /\ pauses > 0
  /\ elapsedSeconds > 0

\* C8: restart() (also as the first half of startGame) leaves, once the
\* effects have run, score 0, gameOver false, every window empty, no door
\* drop, no milestone awarded, 0 seconds on the clock and startedAt at the
\* instant of the restart.
C8_RestartResets ==
  [][lastOp'.op \in {"restart", "startGame"} =>
       /\ points' = 0
       /\ gameOver' = FALSE
       /\ grid' = createInitialGrid
       /\ doorDrop' = NoDrop
       /\ doorMilestonesAwarded' = 0
       /\ elapsedSeconds' = 0
       /\ startedAt' = now
       /\ runKey' = runKey + 1]_vars

\* C8 witness: a run that had seconds on its clock was restarted from the
\* game-over dialog.
C8_Witness ==
  /\ lastOp.op = "restart" /\ lastOp.arg > 0
  /\ points = 0 /\ elapsedSeconds = 0 /\ ~gameOver

Ticks == {"spawn", "cleanup", "timer"}

IntervalOf(op) ==
  IF op = "spawn" THEN spawnIv ELSE IF op = "cleanup" THEN cleanupIv ELSE timerIv

\* C9: a spawn, cleanup or elapsed-time callback takes effect only with the
\* game screen shown, the game not over and its interval registered by the
\* current run; with another screen shown or the game over no interval is
\* registered and grid, door drop and elapsedSeconds change through no
\* callback.
C9_TicksOnlyInLiveRun ==
  [][/\ lastOp'.op \in Ticks =>
          /\ view = "game" /\ ~gameOver
          /\ IntervalOf(lastOp'.op).live
          /\ IntervalOf(lastOp'.op).run = runKey
     /\ (view' # "game" \/ gameOver') =>
          /\ ~spawnIv'.live /\ ~cleanupIv'.live /\ ~timerIv'.live
     /\ \A iv \in {spawnIv', cleanupIv', timerIv'} : iv.live => iv.run = runKey']_vars

\* C9 witness: the clock of a second run has moved, through the interval that
\* run registered.
C9_Witness ==
  /\ lastOp.op = "timer"
  /\ runKey = 2
  /\ timerIv.live /\ timerIv.run = 2
  /\ elapsedSeconds > 0

\* C10: when a change of the score, with the game screen shown and the game
\* not over, takes floor(score / 50) above the milestones awarded, the door
\* drop is armed once: milestonesAwarded becomes the current floor(score / 50)
\* and the drop is a catalog door item with expiresAt in [now + 3000,
\* now + 6000].
C10_MilestoneArmsOnce ==
  [][(/\ view = "game" /\ ~gameOver
      /\ points' # points
      /\ doorMilestones(points') > doorMilestonesAwarded)
     => (/\ doorMilestonesAwarded' = doorMilestones(points')
         /\ doorDrop'.item \in DoorIdx
         /\ doorDrop'.expiresAt >= now + TTL_MIN_MS
         /\ doorDrop'.expiresAt <= now + TTL_MAX_MS)]_vars

\* C10 witness: a click took the score from below 50 to 50 or more and the
\* door holds a drop of the longest lifetime, the first milestone awarded.
C10_Witness ==
  /\ lastOp.op = "clickWindow" /\ lastOp.outcome = "scored"
  /\ points >= MILESTONE_POINTS
  /\ doorMilestonesAwarded = 1
  /\ doorDrop.item # 0
  /\ doorDrop.expiresAt = now + TTL_MAX_MS

Restarts == {"restart", "startGame"}

\* C11: gameOver stays true until restart(); and from a state with the game
\* over or another screen shown, no step other than a restart changes the
\* score, the occupant of any window, the item of the door drop,
\* milestonesAwarded or elapsedSeconds.  Clicks on windows and on the door
\* are among those steps and change nothing at all; the only change is the
\* shift of the expiresAt timestamps by a return to the game screen.
C11_GameOverIsSticky ==
  [][(lastOp'.op \notin Restarts /\ (gameOver \/ view # "game")) =>
       /\ gameOver' = gameOver
       /\ points' = points
       /\ \A i \in CellIds : grid'[i].active = grid[i].active
       /\ doorDrop'.item = doorDrop.item
       /\ doorMilestonesAwarded' = doorMilestonesAwarded
       /\ elapsedSeconds' = elapsedSeconds
       /\ lastOp'.op # "backToGame" => (grid' = grid /\ doorDrop' = doorDrop)]_vars

\* C11 witness: the game is over on the game screen, time has passed since,
\* and a window still holds its occupant, now expired, at a score other
\* than 0.
C11_Witness ==
  /\ gameOver /\ view = "game"
  /\ lastOp.op = "advance"
  /\ points # 0
  /\ \E i \in CellIds : Occupied(grid[i]) /\ grid[i].expiresAt <= now

\* C12: a click on the door while it holds a live drop (expiresAt > now) of
\* value p, with the game screen shown and the game not over, adds p to the
\* score in the day theme and -p in the night theme and removes that drop:
\* the door is empty afterwards, unless the new score reaches a milestone
\* not awarded yet, which arms the next drop in the same task.  No click on
\* the door changes gameOver.
C12_DoorScores ==
  [][lastOp'.op = "clickDoor" =>
       /\ gameOver' = gameOver
       /\ (view = "game" /\ ~gameOver /\ doorDrop.item # 0 /\ doorDrop.expiresAt > now)
            => /\ points' = points + (IF CurrentTheme = "day"
                                       THEN DOOR_ITEMS[doorDrop.item]
                                       ELSE 0 - DOOR_ITEMS[doorDrop.item])
               /\ \/ doorDrop' = NoDrop
                  \/ /\ doorMilestonesAwarded' = doorMilestones(points')
                     /\ doorMilestonesAwarded' > doorMilestonesAwarded]_vars

\* C12 witness: a live drop of negative value was taken from the door in the
\* night theme, and the door is empty.
C12_Witness ==
  /\ lastOp.op = "clickDoor" /\ lastOp.outcome = "scored"
  /\ lastOp.arg \in DoorIdx /\ DOOR_ITEMS[lastOp.arg] < 0
  /\ CurrentTheme = "night"
  /\ doorDrop = NoDrop
  /\ points > MILESTONE_POINTS
  /\ ~gameOver

\* C13: a click on the door when it holds no drop, or a drop whose expiresAt
\* has passed and that the sweep has not removed yet, changes neither the
\* score nor gameOver (an expired drop is removed by the click).
C13_DeadDoorClickIsNoOp ==
  [][(lastOp'.op = "clickDoor"
      /\ (doorDrop.item = 0 \/ doorDrop.expiresAt <= now))
     => (/\ points' = points
         /\ gameOver' = gameOver
         /\ doorDrop' = NoDrop
         /\ doorMilestonesAwarded' = doorMilestonesAwarded)]_vars

\* C13 witness: the door was clicked while it held an expired drop that the
\* sweep had not removed; the drop is gone and the game goes on.
C13_Witness ==
  /\ lastOp.op = "clickDoor" /\ lastOp.outcome = "expired"
  /\ lastOp.arg \in DoorIdx
  /\ doorDrop = NoDrop
  /\ view = "game" /\ ~gameOver

\* C14 (under ClockSpec): the theme the component renders is a function of
\* elapsedSeconds alone, with two phases of 60 seconds: at every second t of
\* the run, theme(t) = theme(t + 120) and theme(t) # theme(t + 60), and
\* theme(0) is day.
C14_ThemeCycle ==
  LET t == elapsedSeconds IN
  /\ theme(t) \in {"day", "night"}
  /\ theme(t) = theme(t + 2 * THEME_PHASE_SECONDS)
  /\ theme(t) # theme(t + THEME_PHASE_SECONDS)
  /\ (t = 0 => theme(t) = "day")

\* C14 witness: the clock of the run has reached the second day phase.
C14_Witness ==
  /\ lastOp.op = "timer"
  /\ elapsedSeconds > THEME_PHASE_SECONDS + THEME_PHASE_SECONDS - THEME_OFFSET_SECONDS
  /\ CurrentTheme = "day"

\* C15 as stated (under ClockSpec): the transition window is the seconds t
\* with t mod 60 >= 55, and whenever theme(t) # theme(t + 1) the second t is
\* in the window and every second of that window up to t has the theme of t.
C15_WindowPrecedesFlip ==
  LET t == elapsedSeconds IN
  /\ isThemeTransitionWindow(t) <=> (t % 60 >= 55)
  /\ theme(t) # theme(t + 1) =>
       /\ isThemeTransitionWindow(t)
       /\ \A u \in 0 .. t :
            (t - u < THEME_OFFSET_SECONDS /\ isThemeTransitionWindow(u))
              => theme(u) = theme(t)

\* C15 as amended (under ClockSpec): the transition window is the last 5
\* seconds of each elapsed minute, and every theme flip opens it: whenever
\* theme(t) # theme(t + 1), the second t is not in the window, the seconds
\* t + 1 .. t + 5 are the whole window and all of them have the theme of
\* t + 1; and the window is entered only by a flip.
C15_FlipOpensWindow ==
  LET t == elapsedSeconds IN
  /\ isThemeTransitionWindow(t) <=>
       ((t + THEME_OFFSET_SECONDS) \div THEME_PHASE_SECONDS # t \div THEME_PHASE_SECONDS)
  /\ theme(t) # theme(t + 1) =>
       /\ ~isThemeTransitionWindow(t)
       /\ \A u \in (t + 1) .. (t + THEME_OFFSET_SECONDS) :
            isThemeTransitionWindow(u) /\ theme(u) = theme(t + 1)
       /\ ~isThemeTransitionWindow(t + THEME_OFFSET_SECONDS + 1)
  /\ (~isThemeTransitionWindow(t) /\ isThemeTransitionWindow(t + 1))
       => theme(t) # theme(t + 1)

\* C15 witness: the clock shows the last second of the first night phase, one
\* second before the window opens and the theme flips back to day.
C15_Witness ==
  /\ lastOp.op = "timer"
  /\ elapsedSeconds > THEME_PHASE_SECONDS
  /\ CurrentTheme = "night"
  /\ theme(elapsedSeconds + 1) = "day"
  /\ ~isThemeTransitionWindow(elapsedSeconds)

\* The lifetime an occupant has left, in time on the game screen: up to its
\* expiresAt from now, or from the pause instant while another screen is shown.
Left(expiresAt) ==
  expiresAt - (IF view = "game" THEN now ELSE pausedAt)

LeftNext(expiresAt) ==
  expiresAt - (IF view' = "game" THEN now' ELSE pausedAt')

\* Time on the game screen that a step lets pass.
Played == IF view = "game" THEN now' - now ELSE 0

\* C16: no occupant expires because of a pause.  The lifetime an occupant of
\* a window or of the door has left goes down only by the time that passes
\* with the game screen shown: leaving the game screen, the time away and the
\* return leave it as it is, and a sweep removes an occupant only on the game
\* screen with no lifetime left.  The return re-bases startedAt and shifts
\* the expiries in one task, so no sweep sees one without the other.
C16_NoExpiryByPause ==
  [][lastOp'.op \notin Restarts =>
       /\ \A i \in CellIds :
            Occupied(grid[i]) =>
              /\ (lastOp'.op = "cleanup" /\ ~Occupied(grid'[i]))
                   => (view = "game" /\ Left(grid[i].expiresAt) <= 0)
              /\ (Occupied(grid'[i]) /\ ~(lastOp'.op = "spawn" /\ lastOp'.arg = i))
                   => LeftNext(grid'[i].expiresAt) = Left(grid[i].expiresAt) - Played
       /\ doorDrop.item # 0 =>
              /\ (lastOp'.op = "cleanup" /\ doorDrop'.item = 0)
                   => (view = "game" /\ Left(doorDrop.expiresAt) <= 0)
              /\ (doorDrop'.item # 0 /\ doorMilestonesAwarded' = doorMilestonesAwarded)
                   => LeftNext(doorDrop'.expiresAt) = Left(doorDrop.expiresAt) - Played
       /\ lastOp'.op = "backToGame" =>
              /\ startedAt' = now - elapsedSeconds * MS_PER_SECOND
              /\ cleanupIv'.live = ~gameOver]_vars

\* C16 witness: after a pause and the clock's next refresh, the window that
\* was populated before the run was paused still holds its occupant, live,
\* past the expiresAt it had when the game screen was left.
C16_Witness ==
  /\ view = "game" /\ ~gameOver
  /\ pauses > 0 /\ spawned = 0
  /\ lastOp.op = "timer" /\ lastOp.arg > 0
  /\ cleanupIv.live
  /\ Live(grid[NumCells - 1], now)
  /\ now >= TTL_MAX_MS - TTL_MIN_MS

\* C17 (under ClockSpec): with the game screen shown since the restart at T0
\* and the game not over, every refresh of the clock, at instant now, leaves
\* elapsedSeconds = floor((now - T0) / 1000), the seconds since the one
\* reference the restart set, whenever the callbacks run.
C17_ClockFromFixedReference ==
  (lastOp.op = "timer" /\ view = "game" /\ ~gameOver /\ pauses = 0)
    => elapsedSeconds = (now - RunStart) \div MS_PER_SECOND

\* C18: elapsedSeconds is never negative, and no task lowers it except
\* restart() (alone or as the first half of startGame), which sets it to 0:
\* refreshes, pauses, returns, clicks and the end of the game leave it as it
\* is or raise it.
C18_ClockIsMonotonic ==
  [][/\ elapsedSeconds >= 0 /\ elapsedSeconds' >= 0
     /\ lastOp'.op \notin Restarts => elapsedSeconds' >= elapsedSeconds
     /\ lastOp'.op \in Restarts => elapsedSeconds' = 0
     /\ elapsedSeconds' # elapsedSeconds => lastOp'.op \in Restarts \cup {"timer"}]_vars

\* C18 witness: after a pause of positive length the clock has moved on from
\* the seconds it showed when the game screen was left.
C18_Witness ==
  /\ lastOp.op = "timer" /\ lastOp.arg > 0
  /\ pauses > 0
  /\ elapsedSeconds > LastDaySecond
  /\ runKey = 1

\* A step in which the door milestone effect arms a drop.
Arms == doorMilestonesAwarded' > doorMilestonesAwarded

LiveDrop == doorDrop.item # 0 /\ doorDrop.expiresAt > now

\* C19 as stated: whenever a milestone arms a door drop, the door is at that
\* moment empty (also when the click that scored has just emptied it) or
\* holds a drop with expiresAt <= now; a live drop is never overwritten.
C19_ArmingSparesLiveDrop ==
  [][Arms => (lastOp'.op = "clickDoor" \/ ~LiveDrop)]_vars

\* C19 as amended: arming replaces whatever the door holds.  Whenever a
\* milestone arms a door drop, the door holds that new drop afterwards, a
\* catalog item with expiresAt in [now + 3000, now + 6000], whether it was
\* empty, held an expired drop or held a live one, which is lost; and a live
\* drop is removed by nothing but a click on the door, restart() or the
\* arming of the next drop.
C19_ArmingReplacesDrop ==
  [][/\ Arms =>
          /\ doorDrop'.item \in DoorIdx
          /\ doorDrop'.expiresAt \in (now + TTL_MIN_MS) .. (now + TTL_MAX_MS)
     /\ (LiveDrop /\ ~Arms /\ lastOp'.op \notin Restarts \cup {"clickDoor"}) =>
          /\ doorDrop'.item = doorDrop.item
          /\ LeftNext(doorDrop'.expiresAt) = Left(doorDrop.expiresAt) - Played]_vars

\* C19 witness: a click on a window took the score to the second milestone,
\* less than TTL_MAX_MS - TTL_MIN_MS after the run was joined, when a drop of
\* the first milestone is live still, and the door holds the new drop.
C19_Witness ==
  /\ lastOp.op = "clickWindow" /\ lastOp.outcome = "scored"
  /\ doorMilestonesAwarded = 2
  /\ now < TTL_MAX_MS - TTL_MIN_MS
  /\ doorDrop.item # 0
  /\ doorDrop.expiresAt >= now + TTL_MIN_MS

\* max(0, floor(score / 50))
Reached(score) == IF doorMilestones(score) > 0 THEN doorMilestones(score) ELSE 0

Larger(a, b) == IF a >= b THEN a ELSE b

\* C20: within a run milestonesAwarded is the largest max(0, floor(score / 50))
\* the score has reached: restart() sets it to 0 with the score, and every
\* other task leaves it at the larger of its value and the new
\* max(0, floor(score / 50)), so it never decreases.  Hence a door drop is
\* armed only by a score of 50 or more whose floor(score / 50) exceeds every
\* earlier value, and not when the score re-crosses a multiple of 50.
C20_MilestonesAreHighWater ==
  [][/\ lastOp'.op \in Restarts =>
          (doorMilestonesAwarded' = 0 /\ points' = 0)
     /\ lastOp'.op \notin Restarts =>
          /\ doorMilestonesAwarded' = Larger(doorMilestonesAwarded, Reached(points'))
          /\ doorMilestonesAwarded >= Reached(points)
     /\ (doorDrop'.item # 0 /\ doorDrop' # doorDrop /\ lastOp'.op # "backToGame") =>
          /\ points' >= MILESTONE_POINTS
          /\ doorMilestones(points') > doorMilestonesAwarded
          /\ doorMilestonesAwarded' = doorMilestones(points')]_vars

\* C20 witness: a click on a window has taken the score back over 100, a
\* milestone that was awarded before the score fell, and no drop was armed.
C20_Witness ==
  /\ lastOp.op = "clickWindow" /\ lastOp.outcome = "scored"
  /\ view = "game" /\ ~gameOver
  /\ points >= 2 * MILESTONE_POINTS
  /\ doorMilestonesAwarded = 2
  /\ doorDrop.item = 0

\* With the game screen shown, no occupant has more than TTL_MAX_MS left.
WithinTTL(v, g, d, t) ==
  v = "game" =>
    /\ \A i \in CellIds : Occupied(g[i]) => g[i].expiresAt - t <= TTL_MAX_MS
    /\ d.item # 0 => d.expiresAt - t <= TTL_MAX_MS

\* C21: in every state with the game screen shown, every occupied window and
\* the door drop, if any, has expiresAt - now <= 6000; a window populated by
\* the spawn callback and a drop armed by a milestone have
\* 3000 <= expiresAt - now <= 6000 at that moment; and pauses, returns, the
\* other screens, the end of the game and restarts stretch no lifetime: a
\* pause records its instant once, and the return shifts by its length once
\* and forgets it.
C21_LifetimeWithinTTL ==
  [][/\ WithinTTL(view, grid, doorDrop, now)
     /\ WithinTTL(view', grid', doorDrop', now')
     /\ lastOp'.op = "spawn" =>
          \A i \in CellIds :
            grid'[i] # grid[i] =>
              grid'[i].expiresAt - now \in TTL_MIN_MS .. TTL_MAX_MS
     /\ Arms => doorDrop'.expiresAt - now \in TTL_MIN_MS .. TTL_MAX_MS
     /\ (view # "game" /\ view' # "game") => pausedAt' = pausedAt
     /\ view' = "game" => pausedAt' = NULL
     /\ (view = "game" /\ view' # "game") => pausedAt' = now]_vars

\* C21 witness: the game was resumed after a pause of positive length, and a
\* window whose expiresAt was shifted past TTL_MAX_MS has exactly TTL_MAX_MS
\* left.
C21_Witness ==
  /\ view = "game"
  /\ lastOp.op = "backToGame" /\ lastOp.arg > 0
  /\ \E i \in CellIds :
       /\ Occupied(grid[i])
       /\ grid[i].expiresAt - now = TTL_MAX_MS
       /\ grid[i].expiresAt > TTL_MAX_MS

====
